---- MODULE Spec2Model ----
(***************************************************************************)
(* A model of transcode.py: the segment planner (Transcoder.split and      *)
(* Transcoder._extract), the stream selector (Transcoder._find_streams,    *)
(* Transcoder._find_demux), the caption resynchronizer (Subtitles.adjust)  *)
(* and the stage sequence of __main__.                                     *)
(*                                                                         *)
(* Times are integers counting ticks; one millisecond is TicksPerMs ticks, *)
(* so that values finer than the millisecond the SRT format writes exist.  *)
(* Python's floating point arithmetic is taken as exact arithmetic.        *)
(***************************************************************************)
EXTENDS Integers, Sequences, FiniteSets, TLC

VARIABLES
    pc,         \* the statement of __main__ (or of the function under study) that runs next
    err,        \* the exception that ended the run, "" while none was raised
    procs,      \* the external processes started so far, in order
    kind,       \* "wtv" (WTVSource) or "myth" (MythSource)
    language,   \* opts.language
    container,  \* "mp4" (MP4Transcoder), "mkv" or "webm" (MKVTranscoder, opts.webm)
    cutlist,    \* source.cutlist
    duration,   \* source.duration
    thresh,     \* opts.thresh, in seconds
    ci,         \* number of cuts the for loop of split has taken
    pos,        \* split's local pos
    elapsed,    \* split's local elapsed
    seg,        \* Transcoder.seg
    chapters,   \* the chapter markers the chapters object holds, in order
    marks,      \* the list of cutpoints the subtitles object holds
    clips,      \* the clips whose ffmpeg extraction succeeded, in order
    ccextractor,\* whether Subtitles.check found ccextractor
    srt_exists, \* whether the file self.srt exists
    srt,        \* the lines of the file self.srt
    li,         \* number of lines the for loop of adjust has taken
    delay,      \* adjust's local delay
    curr,       \* adjust's local curr
    newsubs,    \* adjust's local newsubs, as lines
    tvdb_checks,\* whether the installed Tvdb library rejects a language it does not know
    meta_present,\* source.meta_present
    probe,      \* the lines ffmpeg -i prints for the joined file
    pi,         \* number of lines the for loop of _find_streams has taken
    vstreams,   \* _find_streams' local vstreams
    astreams,   \* _find_streams' local astreams
    log,        \* the lines of the Project-X log
    gi,         \* number of lines the for loop of _find_demux has taken
    found_v,    \* _find_demux's locals
    found_a,
    targ_v,
    targ_a,
    curr_v,
    curr_a,
    _demux_v,   \* Transcoder._demux_v
    _demux_a,   \* Transcoder._demux_a
    on_disk,    \* the kinds ("video", "audio") whose files named in the log exist
    files,      \* the temporary files that exist, each the sequence of the characters of its name
    _split,     \* Transcoder._split
    _demuxed    \* Transcoder._demuxed

\* the options and what copy() learnt of the recording
envVars == <<kind, language, container, cutlist, duration, thresh, tvdb_checks>>
optVars == <<envVars, ccextractor, meta_present>>
\* the locals of split and what _extract changes
splitVars == <<ci, pos, elapsed, seg, chapters, marks, clips>>
\* the caption file and the locals of adjust
adjVars == <<srt_exists, srt, li, delay, curr, newsubs>>
\* the probe of the joined file and the locals of _find_streams
probeVars == <<probe, pi, vstreams, astreams>>
\* the Project-X log, the locals of _find_demux and the files it resolves
demuxVars == <<log, gi, found_v, found_a, targ_v, targ_a, curr_v, curr_a, _demux_v, _demux_a,
               on_disk>>
selVars == <<probeVars, demuxVars>>
\* the temporary files and the lists clean_tmp goes through
fileVars == <<files, _split, _demuxed>>

vars == <<pc, err, procs, optVars, splitVars, adjVars, selVars, fileVars>>

----------------------------------------------------------------------------
(* Units and bounds *)

MsPerSec == 1000
TicksPerMs == 2
Sec == MsPerSec * TicksPerMs
Half == Sec \div 2
Quarter == Sec \div 4

MaxTime == 4
MaxCuts == 2
MaxThresh == 1
MaxLines == 3
MaxCapTime == 3
MaxMarks == 2
MaxMarkTime == 4
MaxProbe == 3
MaxLog == 4
MaxCalls == 2

None == -1

Abs(x) == IF x < 0 THEN -x ELSE x
Sign(x) == IF x < 0 THEN -1 ELSE 1

\* int(a / b) for b > 0: Python's int() truncates toward zero
TruncDiv(a, b) == Sign(a) * (Abs(a) \div b)

\* round(a / b) for b > 0: Python 2 rounds half away from zero
RoundDiv(a, b) == Sign(a) * ((2 * Abs(a) + b) \div (2 * b))

\* round(sec), sec in ticks, result in whole seconds
round(sec) == RoundDiv(sec, Sec)

----------------------------------------------------------------------------
(* Helpers of the program *)

RetCodes == {0, 1, 232}

\* a variant of _cmd that takes nothing but the expected code for a success
_cmd_strict(ret, expected) == [raised |-> ret # expected, ret |-> ret]

\* a variant of _cmd that takes the return code 1 for a success too
_cmd_lenient(ret, expected) == [raised |-> ret # 0 /\ ret # 1 /\ ret # expected, ret |-> ret]

\* _cmd: raises RuntimeError unless the return code is 0 or the expected one
_cmd(ret, expected) == [raised |-> ret # 0 /\ ret # expected, ret |-> ret]

RECURSIVE Pow10(_)
Pow10(n) == IF n = 0 THEN 1 ELSE 10 * Pow10(n - 1)

\* A printed time is the record of its fields: hours, minutes, seconds, the
\* digits after the separator read as a number (frac) and how many digits
\* they are (nd).

\* _seconds_to_time_frac(sec, comma), sec in ticks.
\* comma: '%02d:%02d:%02d,%03d' % (hours, minutes, sec, frac) with
\*   frac = int(round(sec % 1.0 * 1000)), which is 1000 (four digits) when the
\*   fraction of the second is 0.9995 or more; %02d truncates sec
\* otherwise: '%02d:%02d:%07.4f' % (hours, minutes, sec)
_seconds_to_time_frac(sec, comma) ==
    LET hours == TruncDiv(sec, 3600 * Sec)
        s1 == sec - hours * 3600 * Sec
        minutes == TruncDiv(s1, 60 * Sec)
        s2 == s1 - minutes * 60 * Sec
        frac == RoundDiv((s2 % Sec) * MsPerSec, Sec)
        \* round(s2 * 10000), the whole seconds and the fraction taken apart
        s4 == Sign(s2) * ((Abs(s2) \div Sec) * 10000
                          + RoundDiv((Abs(s2) % Sec) * 10000, Sec))
    IN  IF comma
        THEN [h |-> hours, m |-> minutes, s |-> TruncDiv(s2, Sec),
              frac |-> frac, nd |-> IF frac < MsPerSec THEN 3 ELSE 4]
        ELSE [h |-> hours, m |-> minutes, s |-> TruncDiv(s4, 10000),
              frac |-> Abs(s4) % 10000, nd |-> 4]

\* _convert_timestamp, for one of the two timestamps: the seconds a printed
\* time stands for, in ticks
_convert_timestamp(t) ==
    (t.h * 3600 + t.m * 60 + t.s) * Sec + (t.frac * Sec) \div Pow10(t.nd)

\* a variant of MP4Chapters.add that ignores the closing call, as MKVChapters.add does
MP4Chapters_add_skip(chaps, p, sg) ==
    IF sg = None THEN chaps
    ELSE Append(chaps, [pos |-> p,
                        time |-> _seconds_to_time_frac(round(p) * Sec, FALSE),
                        seg |-> sg])

\* MP4Chapters.add: one sample per call, at round(pos); the closing call
\* (seg is None) appends a sample with an empty text
MP4Chapters_add(chaps, p, sg) ==
    Append(chaps, [pos |-> p,
                   time |-> _seconds_to_time_frac(round(p) * Sec, FALSE),
                   seg |-> sg])

\* a variant of MKVChapters.add that records the closing call too
MKVChapters_add_closing(chaps, p, sg, enabled) ==
    IF ~enabled THEN chaps
    ELSE Append(chaps, [pos |-> p, time |-> _seconds_to_time_frac(p, FALSE), seg |-> sg])

\* MKVChapters.add: returns at once when seg is None or chapters are disabled
\* (WebM); the time is not rounded
MKVChapters_add(chaps, p, sg, enabled) ==
    IF sg = None \/ ~enabled THEN chaps
    ELSE Append(chaps, [pos |-> p, time |-> _seconds_to_time_frac(p, FALSE), seg |-> sg])

\* self.chapters.add(pos, seg) of the transcoder that __main__ built
add(chaps, p, sg) ==
    IF container = "mp4" THEN MP4Chapters_add(chaps, p, sg)
    ELSE MKVChapters_add(chaps, p, sg, container # "webm")

\* Subtitles.mark(sec)
mark(ms, sec) == ms \o <<sec>>

----------------------------------------------------------------------------
(* The temporary files. A name is the sequence of its characters, so that  *)
(* what Python's += does with a list and a string can be told apart from   *)
(* list.append.                                                            *)

\* the characters '%d' prints for a number below ten
Digits == <<"0", "1", "2", "3", "4", "5", "6", "7", "8", "9">>

\* source.base, here a path of one character
base == <<"b">>

\* source.orig: base + '-orig.ts' (WTVSource) or base + '-orig.mpg' (MythSource)
orig ==
    IF kind = "wtv" THEN base \o <<"-", "o", "r", "i", "g", ".", "t", "s">>
    ELSE base \o <<"-", "o", "r", "i", "g", ".", "m", "p", "g">>

\* '%s-%d.ts' % (self.source.base, seg)
SegName(n) == base \o <<"-", Digits[n + 1], ".", "t", "s">>

\* Transcoder._join: source.base + '-join.ts'
_join == base \o <<"-", "j", "o", "i", "n", ".", "t", "s">>

\* the file the k-th line of the Project-X log names: Project-X chooses the
\* names, one per stream, after the -name argument base + '-demux'
DemuxName(k) == base \o <<"-", "d", "e", "m", "u", "x", Digits[k + 1]>>

\* list += string: Python extends the list by the characters of the string
ListPlusEq(list, string) == list \o string

\* _clean(filename): the file goes if it is there
_clean(fs, filename) == fs \ {filename}

\* for x in list: _clean(x), where an element of the list is whatever +=
\* put there: one character, the name of a file of one character
_clean_each(fs, list) == fs \ {<<list[i]>> : i \in DOMAIN list}

\* no temporary file written yet, the lists as the class body leaves them
NoFiles ==
    /\ files = {}
    /\ _split = <<>>
    /\ _demuxed = <<>>

----------------------------------------------------------------------------
(* Transcoder.split and Transcoder._extract *)

\* the fields of the Transcoder, its chapters and subtitles that _extract touches
Self == [chapters |-> chapters, procs |-> procs, err |-> err,
         clips |-> clips, seg |-> seg, marks |-> marks,
         _split |-> _split, files |-> files]

Store(t) ==
    /\ chapters' = t.chapters
    /\ procs' = t.procs
    /\ err' = t.err
    /\ clips' = t.clips
    /\ seg' = t.seg
    /\ marks' = t.marks
    /\ _split' = t._split
    /\ files' = t.files

\* _extract(clip, elapsed): the chapter marker is added first and the name
\* of the segment goes to _split, then ffmpeg runs (returning ret) and
\* writes the segment when it returns 0; seg and the caption mark follow
\* only if _cmd returns
_extract(t, clip, el, ret) ==
    LET t1 == [t EXCEPT !.chapters = add(@, el, t.seg),
                        !._split = ListPlusEq(@, SegName(t.seg)),
                        !.procs = Append(@, [tool |-> "ffmpeg extract", ret |-> ret])]
    IN  IF _cmd(ret, 0).raised
        THEN [t1 EXCEPT !.err = "RuntimeError"]
        ELSE [t1 EXCEPT !.clips = Append(@, clip),
                        !.files = @ \cup {SegName(t.seg)},
                        !.seg = @ + 1,
                        !.marks = mark(@, clip[2])]

\* a variant of the test of line 1210 that measures the gap, not the start
split_keep_gap(start, p) == start - p > thresh * Sec /\ start > p

\* a variant of the test of line 1210 without its second half
split_keep_start(start, p) == start > thresh * Sec

\* a variant of the test of line 1210 with >= for >
split_keep_ge(start, p) == start >= thresh * Sec /\ start >= p

\* the test of line 1210
split_keep(start, p) == start > thresh * Sec /\ start > p

\* a variant of the test of line 1214 with <= for <
split_last_le(p) == p <= duration - thresh * Sec

\* a variant of the test of line 1214 with the comparison turned round
split_last_short(p) == p > duration - thresh * Sec

\* the test of line 1214
split_last(p) == p < duration - thresh * Sec

\* one pass of the for loop of split
split_for ==
    /\ pc = "split"
    /\ ci < Len(cutlist)
    /\ LET start == cutlist[ci + 1][1]
           end == cutlist[ci + 1][2]
       IN  IF split_keep(start, pos)
           THEN \E ret \in RetCodes :
                  LET t == _extract(Self, <<pos, start>>, elapsed, ret)
                  IN  /\ Store(t)
                      /\ IF t.err # ""
                         THEN pc' = "error" /\ UNCHANGED <<ci, pos, elapsed>>
                         ELSE /\ pc' = pc
                              /\ ci' = ci + 1
                              /\ elapsed' = elapsed + (start - pos)
                              /\ pos' = end
           ELSE /\ Store(Self)
                /\ pc' = pc
                /\ ci' = ci + 1
                /\ elapsed' = elapsed + (start - pos)
                /\ pos' = end
    /\ UNCHANGED <<optVars, adjVars, selVars, _demuxed>>

\* the statements of split after the loop: the trailing segment and the
\* closing marker
split_end ==
    /\ pc = "split"
    /\ ci = Len(cutlist)
    /\ IF split_last(pos)
       THEN \E ret \in RetCodes :
              LET t == _extract(Self, <<pos, duration>>, elapsed, ret)
                  el == elapsed + (duration - pos)
              IN  IF t.err # ""
                  THEN Store(t) /\ pc' = "error" /\ UNCHANGED <<pos, elapsed>>
                  ELSE /\ Store([t EXCEPT !.chapters = add(@, el, None)])
                       /\ elapsed' = el
                       /\ pos' = duration
                       /\ pc' = "join"
       ELSE /\ Store([Self EXCEPT !.chapters = add(@, elapsed, None)])
            /\ pc' = "join"
            /\ UNCHANGED <<pos, elapsed>>
    /\ UNCHANGED <<optVars, adjVars, selVars, ci, _demuxed>>

----------------------------------------------------------------------------
(* Subtitles.adjust *)

\* the caption file and adjust's locals before join has run
NoCaptions ==
    /\ srt_exists = FALSE
    /\ srt = <<>>
    /\ li = 0
    /\ delay = 0
    /\ curr = 0
    /\ newsubs = <<>>

\* a variant of adjust_begin without the early return of line 681
adjust_begin_always ==
    /\ pc = "adjust"
    /\ delay' = 0
    /\ curr' = 0
    /\ newsubs' = <<>>
    /\ li' = 0
    /\ IF srt_exists
       THEN pc' = "adjust_for" /\ err' = err
       ELSE pc' = "error" /\ err' = "IOError"
    /\ UNCHANGED <<procs, optVars, splitVars, selVars, srt_exists, srt, fileVars>>

\* the first statements of adjust: return when there are no marks, else
\* set the locals and open the file
adjust_begin ==
    /\ pc = "adjust"
    /\ IF Len(marks) = 0
       THEN pc' = "demux" /\ UNCHANGED <<err, li, delay, curr, newsubs>>
       ELSE /\ delay' = 0
            /\ curr' = 0
            /\ newsubs' = <<>>
            /\ li' = 0
            /\ IF srt_exists
               THEN pc' = "adjust_for" /\ err' = err
               ELSE pc' = "error" /\ err' = "IOError"
    /\ UNCHANGED <<procs, optVars, splitVars, selVars, srt_exists, srt, fileVars>>

\* a variant of the test of line 695 with the comparison turned round
adjust_hit_after(c, end) == c < Len(marks) /\ marks[c + 1] > end

\* lines 695 and 696: the next unconsumed marker is before the caption's
\* end; it is also after the caption's start
adjust_hit(c, end) == c < Len(marks) /\ marks[c + 1] < end

\* a variant of the test of line 696 with >= for >
adjust_clip_ge(c, start) == marks[c + 1] >= start

\* line 696
adjust_clip(c, start) == marks[c + 1] > start

\* a variant of adjust_for with a while for the if of line 695: every marker
\* before the caption's end is consumed
adjust_for_while ==
    /\ pc = "adjust_for"
    /\ li < Len(srt)
    /\ LET line == srt[li + 1]
       IN  IF line.ts
           THEN LET start == _convert_timestamp(line.start) + delay
                    end == _convert_timestamp(line.end) + delay
                    hit == adjust_hit(curr, end)
                    clip == hit /\ adjust_clip(curr, start)
                    end2 == IF clip THEN marks[curr + 1] ELSE end
                IN  /\ delay' = IF clip THEN delay + (marks[curr + 1] - end) ELSE delay
                    /\ curr' = curr + Cardinality({k \in (curr + 1)..Len(marks) :
                                                     marks[k] < end})
                    /\ newsubs' = Append(newsubs,
                          [ts |-> TRUE,
                           start |-> _seconds_to_time_frac(start, TRUE),
                           end |-> _seconds_to_time_frac(end2, TRUE),
                           text |-> 0])
           ELSE /\ newsubs' = Append(newsubs, line)
                /\ UNCHANGED <<delay, curr>>
    /\ li' = li + 1
    /\ UNCHANGED <<pc, err, procs, optVars, splitVars, selVars, srt_exists, srt, fileVars>>

\* one pass of the for loop of adjust, over one line of the file
adjust_for ==
    /\ pc = "adjust_for"
    /\ li < Len(srt)
    /\ LET line == srt[li + 1]
       IN  IF line.ts
           THEN LET start == _convert_timestamp(line.start) + delay
                    end == _convert_timestamp(line.end) + delay
                    hit == adjust_hit(curr, end)
                    clip == hit /\ adjust_clip(curr, start)
                    end2 == IF clip THEN marks[curr + 1] ELSE end
                IN  /\ delay' = IF clip THEN delay + (marks[curr + 1] - end) ELSE delay
                    /\ curr' = IF hit THEN curr + 1 ELSE curr
                    /\ newsubs' = Append(newsubs,
                          [ts |-> TRUE,
                           start |-> _seconds_to_time_frac(start, TRUE),
                           end |-> _seconds_to_time_frac(end2, TRUE),
                           text |-> 0])
           ELSE /\ newsubs' = Append(newsubs, line)
                /\ UNCHANGED <<delay, curr>>
    /\ li' = li + 1
    /\ UNCHANGED <<pc, err, procs, optVars, splitVars, selVars, srt_exists, srt, fileVars>>

\* a variant of adjust_end that writes the timestamp lines only
adjust_end_ts_only ==
    /\ pc = "adjust_for"
    /\ li = Len(srt)
    /\ srt' = SelectSeq(newsubs, LAMBDA l : l.ts)
    /\ srt_exists' = TRUE
    /\ pc' = "demux"
    /\ UNCHANGED <<err, procs, optVars, splitVars, selVars, li, delay, curr, newsubs, fileVars>>

\* the last statements of adjust: the file is removed and written anew
adjust_end ==
    /\ pc = "adjust_for"
    /\ li = Len(srt)
    /\ srt' = newsubs
    /\ srt_exists' = TRUE
    /\ pc' = "demux"
    /\ UNCHANGED <<err, procs, optVars, splitVars, selVars, li, delay, curr, newsubs, fileVars>>

----------------------------------------------------------------------------
(* _iso_639_2, Transcoder._find_streams and Transcoder._find_demux *)

\* the table of _iso_639_2, cut down to two of its 23 languages
languages == [en |-> "eng", fr |-> "fra"]

\* _iso_639_2(lang): the three-letter code, or ValueError
_iso_639_2(lang) ==
    IF lang \in DOMAIN languages
    THEN [raised |-> FALSE, val |-> languages[lang]]
    ELSE [raised |-> TRUE, val |-> ""]

\* the probe and the locals of _find_streams before demux has run
NoStreams ==
    /\ probe = <<>>
    /\ pi = 0
    /\ vstreams = <<>>
    /\ astreams = <<>>

\* the log and the locals of _find_demux before demux has run
NoDemux ==
    /\ log = <<>>
    /\ gi = 0
    /\ found_v = 0
    /\ found_a = 0
    /\ targ_v = 0
    /\ targ_a = 0
    /\ curr_v = 1
    /\ curr_a = 1
    /\ _demux_v = None
    /\ _demux_a = None
    /\ on_disk = {}

\* the first statements of _find_streams: the lists are empty and ffmpeg -i
\* is started on the joined file; its return code is never looked at
_find_streams_begin ==
    /\ pc = "find_streams"
    /\ vstreams' = <<>>
    /\ astreams' = <<>>
    /\ pi' = 0
    /\ procs' = Append(procs, [tool |-> "ffmpeg probe", ret |-> None])
    /\ pc' = "find_streams_for"
    /\ UNCHANGED <<err, optVars, splitVars, adjVars, probe, demuxVars, fileVars>>

\* one pass of the for loop of _find_streams, over one line of the report:
\* a video line is enabled when it says (Main), an audio line when its
\* language tag is the three-letter code of opts.language; the code is looked
\* up only for an audio line that has a tag
_find_streams_for ==
    /\ pc = "find_streams_for"
    /\ pi < Len(probe)
    /\ pi' = pi + 1
    /\ LET line == probe[pi + 1]
           lang == _iso_639_2(language)
       IN  CASE line.kind = "video" ->
                  /\ vstreams' = Append(vstreams, [pid |-> line.pid, enabled |-> line.main])
                  /\ UNCHANGED <<pc, err, astreams>>
             [] line.kind = "audio" /\ line.tag = "" ->
                  /\ astreams' = Append(astreams, [pid |-> line.pid, enabled |-> FALSE])
                  /\ UNCHANGED <<pc, err, vstreams>>
             [] line.kind = "audio" /\ line.tag # "" /\ lang.raised ->
                  /\ pc' = "error"
                  /\ err' = "ValueError"
                  /\ UNCHANGED <<vstreams, astreams>>
             [] line.kind = "audio" /\ line.tag # "" /\ ~lang.raised ->
                  /\ astreams' = Append(astreams, [pid |-> line.pid,
                                                   enabled |-> line.tag = lang.val])
                  /\ UNCHANGED <<pc, err, vstreams>>
             [] OTHER -> UNCHANGED <<pc, err, vstreams, astreams>>
    /\ UNCHANGED <<procs, optVars, splitVars, adjVars, probe, demuxVars, fileVars>>

\* the streams of a list that are enabled
Enabled(streams) == {i \in DOMAIN streams : streams[i].enabled}

\* lines 1276 to 1283: when no stream of the list is enabled, the first is
force_first(streams) ==
    IF Enabled(streams) = {} THEN [streams EXCEPT ![1].enabled = TRUE] ELSE streams

\* the statements of _find_streams after the loop
_find_streams_end ==
    /\ pc = "find_streams_for"
    /\ pi = Len(probe)
    /\ IF Len(vstreams) = 0 \/ Len(astreams) = 0
       THEN /\ pc' = "error"
            /\ err' = "RuntimeError"
            /\ UNCHANGED <<vstreams, astreams>>
       ELSE /\ vstreams' = force_first(vstreams)
            /\ astreams' = force_first(astreams)
            /\ pc' = "find_demux"
            /\ err' = err
    /\ UNCHANGED <<procs, optVars, splitVars, adjVars, probe, pi, demuxVars, fileVars>>

\* the statements of _find_demux before the loop
_find_demux_begin ==
    /\ pc = "find_demux"
    /\ gi' = 0
    /\ curr_v' = 1
    /\ curr_a' = 1
    /\ found_v' = 0
    /\ found_a' = 0
    /\ targ_v' = 0
    /\ targ_a' = 0
    /\ pc' = "find_demux_for"
    /\ UNCHANGED <<err, procs, optVars, splitVars, adjVars, probeVars, log, _demux_v, _demux_a,
                   on_disk, fileVars>>

\* the inner loops of lines 1301 and 1308: some enabled stream has this pid
targets(streams, pid) == \E i \in DOMAIN streams : streams[i].pid = pid /\ streams[i].enabled

\* a variant of the test of lines 1315 and 1322 that takes every file up to the target
file_hit_upto(c, targ) == c <= targ

\* the test of lines 1315 and 1322
file_hit(c, targ) == c = targ

\* one pass of the for loop of _find_demux, over one line of the log; a file
\* is known by the number of the line that names it
_find_demux_for ==
    /\ pc = "find_demux_for"
    /\ gi < Len(log)
    /\ gi' = gi + 1
    /\ LET line == log[gi + 1]
       IN  CASE line.t = "vpid" ->
                  /\ found_v' = found_v + 1
                  /\ targ_v' = IF targets(vstreams, line.pid) THEN found_v + 1 ELSE targ_v
                  /\ UNCHANGED <<found_a, targ_a, curr_v, curr_a, _demux_v, _demux_a>>
             [] line.t = "apid" ->
                  /\ found_a' = found_a + 1
                  /\ targ_a' = IF targets(astreams, line.pid) THEN found_a + 1 ELSE targ_a
                  /\ UNCHANGED <<found_v, targ_v, curr_v, curr_a, _demux_v, _demux_a>>
             [] line.t = "vfile" ->
                  /\ _demux_v' = IF line.named /\ file_hit(curr_v, targ_v)
                                 THEN gi + 1 ELSE _demux_v
                  /\ curr_v' = curr_v + 1
                  /\ UNCHANGED <<found_v, found_a, targ_v, targ_a, curr_a, _demux_a>>
             [] line.t = "afile" ->
                  /\ _demux_a' = IF line.named /\ file_hit(curr_a, targ_a)
                                 THEN gi + 1 ELSE _demux_a
                  /\ curr_a' = curr_a + 1
                  /\ UNCHANGED <<found_v, found_a, targ_v, targ_a, curr_v, _demux_v>>
    /\ LET line == log[gi + 1]
       IN  _demuxed' = IF line.t \in {"vfile", "afile"} /\ line.named
                       THEN ListPlusEq(_demuxed, DemuxName(gi + 1))
                       ELSE _demuxed
    /\ UNCHANGED <<pc, err, procs, optVars, splitVars, adjVars, probeVars, log, on_disk,
                   files, _split>>

\* the end of the log: _find_demux returns to demux
_find_demux_end ==
    /\ pc = "find_demux_for"
    /\ gi = Len(log)
    /\ pc' = "demux_check"
    /\ UNCHANGED <<err, procs, optVars, splitVars, adjVars, selVars, fileVars>>

----------------------------------------------------------------------------
(* The stages of __main__ around split, adjust and the stream selector.    *)
(* The tools the version checks look for are taken to be installed, except *)
(* ccextractor and AtomicParsley (which may or may not be).                *)

\* an external process that was started, with its return code (None when
\* the program never looks at it)
Proc(tool, ret) == [tool |-> tool, ret |-> ret]

\* the ways a sequence of _cmd calls with expected = 0 can go: every
\* command returns 0, or the first n - 1 do and the n-th does not, which
\* raises RuntimeError and leaves the rest unattempted
Runs(cmds) ==
    {o \in {[out |-> [i \in 1..n |-> Proc(cmds[i], IF i < n THEN 0 ELSE r)],
             raised |-> _cmd(r, 0).raised] : n \in 1..Len(cmds), r \in RetCodes} :
        o.raised \/ Len(o.out) = Len(cmds)}
    \cup (IF cmds = <<>> THEN {[out |-> <<>>, raised |-> FALSE]} ELSE {})

\* Subtitles.enabled
subtitles_enabled == ccextractor /\ container # "webm"

\* the caption files ccextractor writes in a whole run
CaptionFiles ==
    {<<>>,
     <<[ts |-> FALSE, start |-> [h |-> 0, m |-> 0, s |-> 0, frac |-> 0, nd |-> 3],
        end |-> [h |-> 0, m |-> 0, s |-> 0, frac |-> 0, nd |-> 3], text |-> 1],
       [ts |-> TRUE, start |-> [h |-> 0, m |-> 0, s |-> 0, frac |-> 500, nd |-> 3],
        end |-> [h |-> 0, m |-> 0, s |-> 1, frac |-> 500, nd |-> 3], text |-> 0]>>}

\* WTVSource(wtv, opts) or MythSource(channel, timecode, opts): the Tvdb
\* constructor of the MythTV library may reject a language it does not know
\* (taken to be one that the table of _iso_639_2 does not have); the WTV
\* constructor then reads the metadata with ffmpeg -i
main_source ==
    /\ pc = "source"
    /\ IF tvdb_checks /\ language \notin DOMAIN languages
       THEN /\ pc' = "error"
            /\ err' = "ValueError"
            /\ UNCHANGED <<procs, meta_present>>
       ELSE /\ procs' = IF kind = "wtv"
                        THEN Append(procs, Proc("ffmpeg metadata", None))
                        ELSE procs
            /\ meta_present' \in BOOLEAN
            /\ pc' = "copy"
            /\ err' = err
    /\ UNCHANGED <<envVars, ccextractor, splitVars, adjVars, selVars, fileVars>>

\* the outcomes of video_params and of the test that follows it in copy
ParamsOutcomes == {"ok", "no streams", "no parameters"}

\* s.copy(): WTVSource.copy looks the language up, runs WtvToMpeg and
\* reads the metadata again; MythSource.copy copies the bytes itself; both
\* then call video_params (ffmpeg -i, then ffmpeg -version) and _cut_list;
\* the copy is there when the run goes on
main_copy ==
    /\ pc = "copy"
    /\ IF kind = "wtv" /\ _iso_639_2(language).raised
       THEN /\ pc' = "error"
            /\ err' = "ValueError"
            /\ procs' = procs
       ELSE \E o \in Runs(IF kind = "wtv" THEN <<"java WtvToMpeg">> ELSE <<>>),
               params \in ParamsOutcomes :
              LET meta == IF kind = "wtv" THEN <<Proc("ffmpeg metadata", None)>> ELSE <<>>
                  probed == procs \o o.out \o meta \o <<Proc("ffmpeg params", None)>>
              IN  IF o.raised
                  THEN /\ procs' = procs \o o.out
                       /\ pc' = "error"
                       /\ err' = "RuntimeError"
                  ELSE IF params = "no streams"
                  THEN /\ procs' = probed
                       /\ pc' = "error"
                       /\ err' = "RuntimeError"
                  ELSE /\ procs' = Append(probed, Proc("ffmpeg version", None))
                       /\ pc' = IF params = "ok" THEN "transcoder" ELSE "error"
                       /\ err' = IF params = "ok" THEN err ELSE "RuntimeError"
    /\ files' = IF pc' = "transcoder" THEN files \cup {orig} ELSE files
    /\ UNCHANGED <<optVars, splitVars, adjVars, selVars, _split, _demuxed>>

\* MP4Transcoder(s, opts) or MKVTranscoder(s, opts): Transcoder.__init__
\* calls self.check(), which is the check of the subclass and reads
\* self.metadata while it is still None when the source has no metadata;
\* the subtitles, chapters and metadata objects follow and check runs again
main_transcoder ==
    /\ pc = "transcoder"
    /\ LET check == Proc(IF container = "mp4" THEN "MP4Box version"
                         ELSE "mkvmerge version", None)
       IN  IF ~meta_present
           THEN /\ procs' = Append(procs, check)
                /\ pc' = "error"
                /\ err' = "AttributeError"
                /\ ccextractor' = ccextractor
           ELSE \E found \in BOOLEAN :
                  /\ ccextractor' = found
                  /\ procs' = procs \o <<check>>
                                \o (IF found THEN <<Proc("ccextractor version", None)>>
                                    ELSE <<>>)
                                \o <<check>>
                  /\ pc' = "split"
                  /\ err' = err
    /\ UNCHANGED <<envVars, meta_present, splitVars, adjVars, selVars, fileVars>>

\* the segments the loop of join asks for: xrange(0, self.seg)
Segments(n) == {SegName(k) : k \in 0..(n - 1)}

\* the list join hands to ffmpeg after 'concat:', in the order of the loop
Concat(n) == [k \in 1..n |-> SegName(k - 1)]

\* the ffmpeg command of join, with the list it was given
Joined(out) == [i \in DOMAIN out |-> [tool |-> out[i].tool, ret |-> out[i].ret,
                                       concat |-> Concat(seg)]]

\* a variant of the test of lines 1227 to 1230 that passes over a segment
\* that is not there
join_skip_missing(fs, lost) == FALSE

\* the test of lines 1227 to 1230: a segment that is not there raises
join_missing(fs, lost) == Segments(seg) \ (fs \ lost) # {}

\* t.join(): the old caption file is removed; a segment that split wrote
\* may be gone by now (lost), which raises; otherwise ffmpeg joins the
\* segments, ccextractor (expected = 232) may or may not write a caption
\* file; subtitles.adjust() follows
join ==
    /\ pc = "join"
    /\ \E o \in Runs(<<"ffmpeg join">>), ret \in RetCodes,
          track \in CaptionFiles, written \in BOOLEAN,
          lost \in SUBSET Segments(seg) :
         /\ files' = IF join_missing(files, lost) \/ o.raised
                      THEN files \ lost
                      ELSE (files \ lost) \cup {_join}
         /\ IF join_missing(files, lost)
            THEN /\ procs' = procs
                 /\ pc' = "error"
                 /\ err' = "RuntimeError"
                 /\ srt_exists' = FALSE
                 /\ srt' = <<>>
            ELSE IF o.raised
            THEN /\ procs' = procs \o Joined(o.out)
                 /\ pc' = "error"
                 /\ err' = "RuntimeError"
                 /\ srt_exists' = FALSE
                 /\ srt' = <<>>
            ELSE IF ~subtitles_enabled
            THEN /\ procs' = procs \o Joined(o.out)
                 /\ pc' = "adjust"
                 /\ err' = err
                 /\ srt_exists' = FALSE
                 /\ srt' = <<>>
            ELSE /\ procs' = procs \o Joined(o.out) \o <<Proc("ccextractor", ret)>>
                 /\ pc' = IF _cmd(ret, 232).raised THEN "error" ELSE "adjust"
                 /\ err' = IF _cmd(ret, 232).raised THEN "RuntimeError" ELSE err
                 /\ srt_exists' = written
                 /\ srt' = IF written THEN track ELSE <<>>
    /\ UNCHANGED <<optVars, splitVars, selVars, li, delay, curr, newsubs, _split, _demuxed>>

\* the files a run of Project-X leaves: those its log names, of the kinds
\* that are on disk
Demuxed(lg, kinds) ==
    {DemuxName(k) : k \in {i \in DOMAIN lg :
                              \/ lg[i].t = "vfile" /\ lg[i].named /\ "video" \in kinds
                              \/ lg[i].t = "afile" /\ lg[i].named /\ "audio" \in kinds}}

\* the first statements of t.demux(): Project-X runs on the joined file
demux_begin ==
    /\ pc = "demux"
    /\ \E o \in Runs(<<"java ProjectX">>) :
         /\ procs' = procs \o o.out
         /\ pc' = IF o.raised THEN "error" ELSE "find_streams"
         /\ err' = IF o.raised THEN "RuntimeError" ELSE err
         /\ files' = IF o.raised THEN files ELSE files \cup Demuxed(log, on_disk)
    /\ UNCHANGED <<optVars, splitVars, adjVars, selVars, _split, _demuxed>>

\* a variant of demux_end that looks for the video file only
demux_end_video ==
    /\ pc = "demux_check"
    /\ IF _demux_v = None \/ "video" \notin on_disk
       THEN pc' = "error" /\ err' = "RuntimeError" /\ files' = files
       ELSE pc' = "encode_audio" /\ err' = err /\ files' = _clean(files, orig)
    /\ UNCHANGED <<procs, optVars, splitVars, adjVars, selVars, _split, _demuxed>>

\* the last statements of t.demux(): each resolved file must be there;
\* s.clean_copy() follows
demux_end ==
    /\ pc = "demux_check"
    /\ IF \/ _demux_v = None \/ "video" \notin on_disk
          \/ _demux_a = None \/ "audio" \notin on_disk
       THEN pc' = "error" /\ err' = "RuntimeError" /\ files' = files
       ELSE pc' = "encode_audio" /\ err' = err /\ files' = _clean(files, orig)
    /\ UNCHANGED <<procs, optVars, splitVars, adjVars, selVars, _split, _demuxed>>

\* Transcoder.clean_video
clean_video(fs) == _clean(fs, DemuxName(_demux_v))

\* a variant of clean_audio that removes both streams
clean_audio_both(fs) == _clean(_clean(fs, DemuxName(_demux_a)), DemuxName(_demux_v))

\* Transcoder.clean_audio
clean_audio(fs) == _clean(fs, DemuxName(_demux_a))

\* t.encode_audio() and t.clean_audio(): AAC through neroAacEnc takes two
\* commands, every other way one
encode_audio ==
    /\ pc = "encode_audio"
    /\ \E nero \in BOOLEAN :
         \E o \in Runs(IF container # "webm" /\ nero
                       THEN <<"ffmpeg wav", "neroAacEnc">>
                       ELSE <<"ffmpeg audio">>) :
           /\ procs' = procs \o o.out
           /\ pc' = IF o.raised THEN "error" ELSE "encode_video"
           /\ err' = IF o.raised THEN "RuntimeError" ELSE err
           /\ files' = IF o.raised THEN files ELSE clean_audio(files)
    /\ UNCHANGED <<optVars, splitVars, adjVars, selVars, _split, _demuxed>>

\* t.encode_video() and t.clean_video(): two commands with opts.two_pass
encode_video ==
    /\ pc = "encode_video"
    /\ \E two_pass \in BOOLEAN :
         \E o \in Runs(IF two_pass
                       THEN <<"ffmpeg pass 1", "ffmpeg pass 2">>
                       ELSE <<"ffmpeg video">>) :
           /\ procs' = procs \o o.out
           /\ pc' = IF o.raised THEN "error" ELSE "remux"
           /\ err' = IF o.raised THEN "RuntimeError" ELSE err
           /\ files' = IF o.raised THEN files ELSE clean_video(files)
    /\ UNCHANGED <<optVars, splitVars, adjVars, selVars, _split, _demuxed>>

\* _version(opts): five version probes
Versions == <<Proc("neroAacEnc version", None), Proc("faac version", None),
              Proc("x264 version", None), Proc("ffmpeg version", None),
              Proc("ProjectX version", None)>>

\* MP4Metadata.write: nothing when AtomicParsley is absent; otherwise the
\* simple tags and the description, then the artwork if the source has one
\* (a failure there is only logged), then the credits if there are any
MP4Metadata_write ==
    {[out |-> <<>>, raised |-> FALSE]}
    \cup {m \in Runs(<<"AtomicParsley tags", "AtomicParsley description">>) :
              m.raised}
    \cup {[out |-> m.out \o art \o c.out, raised |-> c.raised] :
              m \in {n \in Runs(<<"AtomicParsley tags",
                                  "AtomicParsley description">>) : ~n.raised},
              art \in {<<>>} \cup {<<Proc("AtomicParsley artwork", r)>> :
                                      r \in RetCodes},
              c \in Runs(<<>>) \cup Runs(<<"AtomicParsley credits">>)}

\* MP4Transcoder.remux: MP4Box builds the file, hints it, adds the captions
\* (when enabled) and the chapters (a failure there is only logged) and sets
\* the language; the metadata is written last
remux_mp4 ==
    \E o \in Runs(<<"MP4Box new", "MP4Box hint">>
                  \o (IF subtitles_enabled THEN <<"MP4Box srt">> ELSE <<>>)),
       chap \in RetCodes, lang \in Runs(<<"MP4Box lang">>),
       meta \in MP4Metadata_write :
      IF o.raised
      THEN /\ procs' = procs \o o.out
           /\ pc' = "error"
           /\ err' = "RuntimeError"
      ELSE IF lang.raised
      THEN /\ procs' = procs \o o.out \o <<Proc("MP4Box chap", chap)>> \o lang.out
           /\ pc' = "error"
           /\ err' = "RuntimeError"
      ELSE /\ procs' = procs \o o.out \o <<Proc("MP4Box chap", chap)>> \o lang.out
                         \o Versions \o meta.out
           /\ pc' = IF meta.raised THEN "error" ELSE "clean"
           /\ err' = IF meta.raised THEN "RuntimeError" ELSE err

\* MKVTranscoder.remux: the language is looked up while the arguments are
\* put together, then mkvmerge runs once
remux_mkv ==
    IF _iso_639_2(language).raised
    THEN /\ procs' = procs
         /\ pc' = "error"
         /\ err' = "ValueError"
    ELSE \E o \in Runs(<<"mkvmerge">>) :
           /\ procs' = procs \o Versions \o o.out
           /\ pc' = IF o.raised THEN "error" ELSE "clean"
           /\ err' = IF o.raised THEN "RuntimeError" ELSE err

\* t.remux()
remux ==
    /\ pc = "remux"
    /\ IF container = "mp4" THEN remux_mp4 ELSE remux_mkv
    /\ UNCHANGED <<optVars, splitVars, adjVars, selVars, fileVars>>

\* Transcoder.clean_tmp: the two streams, whatever _split and _demuxed
\* hold, and the joined file
clean_tmp(fs) ==
    _clean(_clean_each(_clean_each(clean_audio(clean_video(fs)), _split), _demuxed), _join)

\* t.clean_tmp(): Transcoder.clean_tmp, then the temporary files of the
\* captions, the chapters and the metadata go
main_clean ==
    /\ pc = "clean"
    /\ pc' = "clean_source"
    /\ srt_exists' = FALSE
    /\ srt' = <<>>
    /\ files' = clean_tmp(files)
    /\ UNCHANGED <<err, procs, optVars, splitVars, selVars, li, delay, curr, newsubs,
                   _split, _demuxed>>

\* s.clean_tmp(): the copy goes (again), and the whole temporary directory
\* when the program made it itself (no --tmp option)
Source_clean_tmp ==
    /\ pc = "clean_source"
    /\ pc' = "done"
    /\ \E remove_tmp \in BOOLEAN :
         files' = IF remove_tmp THEN {} ELSE _clean(files, orig)
    /\ UNCHANGED <<err, procs, optVars, splitVars, adjVars, selVars, _split, _demuxed>>

----------------------------------------------------------------------------
(* The segment planner on its own: every cutlist, duration and threshold   *)
(* within the bounds, from the call of t.split() on.                       *)

Times == {k * Sec : k \in 0..MaxTime}
\* a cut as Comskip or MythTV gives it: two frame times, the first not after the second
Cuts == {c \in Times \X Times : c[1] <= c[2]}
Cutlists == UNION {[1..n -> Cuts] : n \in 0..MaxCuts}
Durations == {k * Sec + f : k \in 1..MaxTime, f \in {0, Sec \div 2}}
Containers == {"mp4", "mkv", "webm"}
Thresholds == {0, MaxThresh}

InitSplit ==
    /\ pc = "split"
    /\ err = ""
    /\ procs = <<>>
    /\ kind = "wtv"
    /\ language = "en"
    /\ container \in Containers
    /\ ccextractor = TRUE
    /\ tvdb_checks = TRUE
    /\ meta_present = TRUE
    /\ NoCaptions
    /\ NoStreams
    /\ NoDemux
    /\ NoFiles
    /\ cutlist \in Cutlists
    /\ duration \in Durations
    /\ thresh \in Thresholds
    /\ ci = 0
    /\ pos = 0
    /\ elapsed = 0
    /\ seg = 0
    /\ chapters = <<>>
    /\ marks = <<>>
    /\ clips = <<>>

NextSplit == split_for \/ split_end

SpecSplit == InitSplit /\ [][NextSplit]_vars

\* the planner on a recording of 100 seconds with thresh 0 or 5 (the
\* default of --thresh) and cuts at 0, 10, 20, 30, 60 and 65 seconds
ExampleTimes == {0, 10 * Sec, 20 * Sec, 30 * Sec, 60 * Sec, 65 * Sec}
ExampleCuts == {c \in ExampleTimes \X ExampleTimes : c[1] <= c[2]}
ExampleCutlists == UNION {[1..n -> ExampleCuts] : n \in 0..MaxCuts}

InitExample ==
    /\ pc = "split"
    /\ err = ""
    /\ procs = <<>>
    /\ kind = "wtv"
    /\ language = "en"
    /\ container \in Containers
    /\ ccextractor = TRUE
    /\ tvdb_checks = TRUE
    /\ meta_present = TRUE
    /\ NoCaptions
    /\ NoStreams
    /\ NoDemux
    /\ NoFiles
    /\ cutlist \in ExampleCutlists
    /\ duration = 100 * Sec
    /\ thresh \in {0, 5}
    /\ ci = 0
    /\ pos = 0
    /\ elapsed = 0
    /\ seg = 0
    /\ chapters = <<>>
    /\ marks = <<>>
    /\ clips = <<>>

SpecExample == InitExample /\ [][NextSplit]_vars

\* the planner on the cutlists that are ascending and do not overlap, with
\* every threshold the option parser lets through, a negative one too
AscendingCutlists ==
    {cl \in Cutlists : \A i, j \in DOMAIN cl : i < j => cl[i][2] <= cl[j][1]}
AnyThresholds == {-MaxThresh} \cup Thresholds

InitMarkers ==
    /\ pc = "split"
    /\ err = ""
    /\ procs = <<>>
    /\ kind = "wtv"
    /\ language = "en"
    /\ container \in Containers
    /\ ccextractor = TRUE
    /\ tvdb_checks = TRUE
    /\ meta_present = TRUE
    /\ NoCaptions
    /\ NoStreams
    /\ NoDemux
    /\ NoFiles
    /\ cutlist \in AscendingCutlists
    /\ duration \in Durations
    /\ thresh \in AnyThresholds
    /\ ci = 0
    /\ pos = 0
    /\ elapsed = 0
    /\ seg = 0
    /\ chapters = <<>>
    /\ marks = <<>>
    /\ clips = <<>>

SpecMarkers == InitMarkers /\ [][NextSplit]_vars

----------------------------------------------------------------------------
(* Properties of the segment planner *)

RECURSIVE SumLen(_, _)
\* the total length of the first n clips of cs
SumLen(cs, n) == IF n = 0 THEN 0 ELSE SumLen(cs, n - 1) + (cs[n][2] - cs[n][1])

\* the cutlist is ascending, non-overlapping and inside [0, duration]
ValidCutlist ==
    /\ \A i \in DOMAIN cutlist :
         0 <= cutlist[i][1] /\ cutlist[i][1] < cutlist[i][2] /\ cutlist[i][2] <= duration
    /\ \A i, j \in DOMAIN cutlist : i < j => cutlist[i][2] <= cutlist[j][1]

\* the recording in half-second cells: cell k is [k * Half, (k + 1) * Half)
Cells == 0..((duration \div Half) - 1)
Within(k, iv) == iv[1] <= k * Half /\ (k + 1) * Half <= iv[2]
Cover(k) == Cardinality({i \in DOMAIN clips : Within(k, clips[i])})
            + Cardinality({i \in DOMAIN cutlist : Within(k, cutlist[i])})
LastEnd == IF cutlist = <<>> THEN 0 ELSE cutlist[Len(cutlist)][2]

SplitDone == pc = "join"

\* C1 as stated: for a valid cutlist the segments do not overlap and every
\* instant of [0, duration] lies in exactly one segment or cut
C1_ExactCover ==
    (SplitDone /\ ValidCutlist) =>
        /\ \A i, j \in DOMAIN clips : i < j => clips[i][2] <= clips[j][1]
        /\ \A k \in Cells : Cover(k) = 1

\* C1 amended: for a valid cutlist the segments do not overlap, no instant
\* lies in two of the segments and cuts, and an instant lies in none only if
\* it precedes a cut that starts at or before thresh or follows the last cut
\* when at most thresh of the recording is left
C1_CoverUpToThresh ==
    (SplitDone /\ ValidCutlist) =>
        /\ \A i, j \in DOMAIN clips : i < j => clips[i][2] <= clips[j][1]
        /\ \A k \in Cells :
             /\ Cover(k) <= 1
             /\ Cover(k) = 0 =>
                  \/ \E i \in DOMAIN cutlist :
                       (k + 1) * Half <= cutlist[i][1] /\ cutlist[i][1] <= thresh * Sec
                  \/ k * Half >= LastEnd /\ duration - LastEnd <= thresh * Sec

C1_Witness ==
    /\ SplitDone /\ ValidCutlist
    /\ Len(cutlist) >= 1 /\ Len(clips) >= 1
    /\ \E k \in Cells : Cover(k) = 0

\* the cuts are valid and lie strictly inside (thresh, duration - thresh)
CutsInside ==
    /\ ValidCutlist
    /\ \A i \in DOMAIN cutlist :
         thresh * Sec < cutlist[i][1] /\ cutlist[i][2] < duration - thresh * Sec

\* the first n markers are labelled, one per segment, in extraction order
LabelledMarkers(n) ==
    /\ Len(chapters) >= n
    /\ \A i \in 1..n : chapters[i].seg = i - 1

SegmentsBefore(i) == IF chapters[i].seg = None THEN Len(clips) ELSE chapters[i].seg

\* C3: every marker, the closing one included, is recorded at the total
\* length of the segments extracted before it (valid cutlists)
C3_MarkerIsOutputLength ==
    ValidCutlist =>
        \A i \in DOMAIN chapters : chapters[i].pos = SumLen(clips, SegmentsBefore(i))

\* C5: the mark recorded for the n-th extracted segment is the elapsed output
\* time at which that segment ends, and the marks ascend (valid cutlists)
C5_MarkIsOutputTime ==
    ValidCutlist =>
        /\ \A n \in DOMAIN marks : marks[n] = SumLen(clips, n)
        /\ \A m, n \in DOMAIN marks : m < n => marks[m] < marks[n]

\* C9: an invalid cutlist is rejected before split extracts a segment or
\* records a marker, and for a valid cutlist split itself never fails (an
\* error can only be the RuntimeError of a failed ffmpeg run)
C9_InvalidCutlistRejected ==
    /\ ~ValidCutlist =>
         /\ clips = <<>> /\ chapters = <<>> /\ marks = <<>>
         /\ \A i \in DOMAIN procs : procs[i].tool # "ffmpeg extract"
    /\ (ValidCutlist /\ err # "") =>
         /\ err = "RuntimeError"
         /\ _cmd(procs[Len(procs)].ret, 0).raised

----------------------------------------------------------------------------
(* The caption resynchronizer on its own: every ordered caption file and   *)
(* every ascending list of marks within the bounds, from the call of       *)
(* self.subtitles.adjust() on.                                             *)

\* a time as ccextractor prints it, with three digits of milliseconds
InputTs(v) == [h |-> 0, m |-> 0, s |-> v \div Sec,
               frac |-> ((v % Sec) * MsPerSec) \div Sec, nd |-> 3]

CapTimes == {k * Half : k \in 0..MaxCapTime}
TsLines == {[ts |-> TRUE, start |-> InputTs(c[1]), end |-> InputTs(c[2]), text |-> 0] :
               c \in {d \in CapTimes \X CapTimes : d[1] <= d[2]}}
TextLines == {[ts |-> FALSE, start |-> InputTs(0), end |-> InputTs(0), text |-> 1]}

\* the captions of a file follow one another: no caption ends before it
\* starts (TsLines) or starts before the one before it ends
WellFormed(t) ==
    \A i, j \in DOMAIN t :
        (i < j /\ t[i].ts /\ t[j].ts) =>
            _convert_timestamp(t[i].end) <= _convert_timestamp(t[j].start)

Tracks == {t \in UNION {[1..n -> TsLines \cup TextLines] : n \in 0..MaxLines} :
              WellFormed(t)}

\* cutpoints are whole quarters of a second, or a tick off one
MarkTimes == {k * Quarter : k \in 1..MaxMarkTime} \cup {Quarter + 1, Sec - 1}
Ascending(ms) == \A i, j \in DOMAIN ms : i < j => ms[i] < ms[j]
MarkLists == {ms \in UNION {[1..n -> MarkTimes] : n \in 0..MaxMarks} : Ascending(ms)}

InitAdjust ==
    /\ pc = "adjust"
    /\ err = ""
    /\ procs = <<>>
    /\ kind = "wtv"
    /\ language = "en"
    /\ container = "mp4"
    /\ cutlist = <<>>
    /\ duration = Sec
    /\ thresh = 0
    /\ ci = 0
    /\ pos = 0
    /\ elapsed = 0
    /\ chapters = <<>>
    /\ clips = <<>>
    /\ marks \in MarkLists
    /\ seg = Len(marks)
    /\ ccextractor \in BOOLEAN
    /\ srt_exists = ccextractor
    /\ srt \in (IF srt_exists THEN Tracks ELSE {<<>>})
    /\ li = 0
    /\ delay = 0
    /\ curr = 0
    /\ newsubs = <<>>
    /\ tvdb_checks = TRUE
    /\ meta_present = TRUE
    /\ NoStreams
    /\ NoDemux
    /\ NoFiles

NextAdjust == adjust_begin \/ adjust_for \/ adjust_end

SpecAdjust == InitAdjust /\ [][NextAdjust]_vars

\* adjust is called once more on the same file after a pass that had marks,
\* the marker list emptied
adjust_again ==
    /\ pc = "demux"
    /\ marks # <<>>
    /\ marks' = <<>>
    /\ pc' = "adjust"
    /\ UNCHANGED <<err, procs, optVars, ci, pos, elapsed, seg, chapters, clips,
                   adjVars, selVars, fileVars>>

NextReadjust == adjust_begin \/ adjust_for \/ adjust_end \/ adjust_again

SpecReadjust == InitAdjust /\ [][NextReadjust]_vars

\* a time rounded to the whole millisecond, which is what an SRT time can say
RoundMs(x) == RoundDiv(x, TicksPerMs) * TicksPerMs

\* C4: when the next unconsumed marker m lies strictly between the caption's
\* delayed start and end, the caption is written as (start, m), to the
\* millisecond, and delay decreases by exactly end - m
C4_ClipAtMarker ==
    [][ (/\ pc = "adjust_for" /\ li < Len(srt) /\ li' = li + 1
         /\ srt[li + 1].ts
         /\ curr < Len(marks)
         /\ _convert_timestamp(srt[li + 1].start) + delay < marks[curr + 1]
         /\ marks[curr + 1] < _convert_timestamp(srt[li + 1].end) + delay)
        =>
        (/\ _convert_timestamp(newsubs'[li + 1].start)
              = RoundMs(_convert_timestamp(srt[li + 1].start) + delay)
         /\ _convert_timestamp(newsubs'[li + 1].end) = RoundMs(marks[curr + 1])
         /\ delay' = delay - (_convert_timestamp(srt[li + 1].end) + delay - marks[curr + 1])
         /\ curr' = curr + 1) ]_vars

----------------------------------------------------------------------------
(* The stream selector on its own: every report of ffmpeg -i within the    *)
(* bounds, from the call of self._find_streams() on.                       *)

\* stream identifiers
Pids == {1, 2}
\* language tags of audio lines; "" is a line without one
Tags == {"", "eng", "fra"}
\* opts.language: two codes of the table and one that is not in it
Languages == {"en", "fr", "xx"}

VideoLines == {[kind |-> "video", pid |-> p, main |-> b, tag |-> ""] :
                  p \in Pids, b \in BOOLEAN}
AudioLines == {[kind |-> "audio", pid |-> p, main |-> FALSE, tag |-> t] :
                  p \in Pids, t \in Tags}
OtherLines == {[kind |-> "other", pid |-> 0, main |-> FALSE, tag |-> ""]}
Probes == UNION {[1..n -> VideoLines \cup AudioLines \cup OtherLines] : n \in 0..MaxProbe}

\* a MythTV recording; the Source constructor has let the language through
InitStreams ==
    /\ pc = "find_streams"
    /\ err = ""
    /\ procs = <<>>
    /\ kind = "myth"
    /\ tvdb_checks = FALSE
    /\ meta_present = TRUE
    /\ language \in Languages
    /\ container = "mp4"
    /\ ccextractor = FALSE
    /\ cutlist = <<>>
    /\ duration = Sec
    /\ thresh = 0
    /\ ci = 0
    /\ pos = 0
    /\ elapsed = 0
    /\ seg = 0
    /\ chapters = <<>>
    /\ marks = <<>>
    /\ clips = <<>>
    /\ NoCaptions
    /\ probe \in Probes
    /\ pi = 0
    /\ vstreams = <<>>
    /\ astreams = <<>>
    /\ NoDemux
    /\ NoFiles

NextStreams == _find_streams_begin \/ _find_streams_for \/ _find_streams_end

SpecStreams == InitStreams /\ [][NextStreams]_vars

\* the lines of the report of one kind, in order
LinesOf(k) == {i \in DOMAIN probe : probe[i].kind = k}
First(S) == CHOOSE i \in S : \A j \in S : i <= j
\* the audio lines whose tag is the requested language
InLanguage == {i \in LinesOf("audio") :
                  /\ language \in DOMAIN languages
                  /\ probe[i].tag = languages[language]}
MainTagged == {i \in LinesOf("video") : probe[i].main}
StreamsFound == pc = "find_demux"

\* C6: after _find_streams returns, exactly one video stream and exactly one
\* audio stream is enabled
C6_ExactlyOneEnabled ==
    StreamsFound =>
        /\ Cardinality(Enabled(vstreams)) = 1
        /\ Cardinality(Enabled(astreams)) = 1

\* C7: with a stream of each kind in the report, a kind of which no stream
\* matches the preference gets its first stream enabled (and no other) and
\* no error is raised; with no stream of a kind, _find_streams does not
\* return
C7_FallbackToFirst ==
    /\ (LinesOf("video") # {} /\ LinesOf("audio") # {}) =>
         /\ err = ""
         /\ (StreamsFound /\ MainTagged = {}) =>
              /\ Enabled(vstreams) = {1}
              /\ vstreams[1].pid = probe[First(LinesOf("video"))].pid
         /\ (StreamsFound /\ InLanguage = {}) =>
              /\ Enabled(astreams) = {1}
              /\ astreams[1].pid = probe[First(LinesOf("audio"))].pid
    /\ (LinesOf("video") = {} \/ LinesOf("audio") = {}) =>
         /\ ~StreamsFound
         /\ (pc = "error" => err \in {"RuntimeError", "ValueError"})

----------------------------------------------------------------------------
(* The log scan on its own: every result of _find_streams and every log    *)
(* within the bounds, from the open of the log on.                         *)

\* what _find_streams returns: two streams, at least one of them enabled
VStreams == {<<[pid |-> 1, enabled |-> e[1]], [pid |-> 2, enabled |-> e[2]]>> :
                e \in {f \in BOOLEAN \X BOOLEAN : f[1] \/ f[2]}}
AStreams == {<<[pid |-> 1, enabled |-> a], [pid |-> 2, enabled |-> ~a]>> : a \in BOOLEAN}

\* the lines of the log that _find_demux reads: 'Video: PID 0x..',
\* 'Audio: PID 0x..', '.Video ...' and 'Audio n ...', the last two with or
\* without a quoted file name at the end
LogLines == {[t |-> "vpid", pid |-> p, named |-> FALSE] : p \in Pids}
       \cup {[t |-> "apid", pid |-> p, named |-> FALSE] : p \in Pids}
       \cup {[t |-> "vfile", pid |-> 0, named |-> b] : b \in BOOLEAN}
       \cup {[t |-> "afile", pid |-> 0, named |-> TRUE]}
Logs == UNION {[1..n -> LogLines] : n \in 0..MaxLog}

InitDemux ==
    /\ pc = "find_demux"
    /\ err = ""
    /\ procs = <<>>
    /\ kind = "myth"
    /\ tvdb_checks = TRUE
    /\ meta_present = TRUE
    /\ language = "en"
    /\ container = "mp4"
    /\ ccextractor = FALSE
    /\ cutlist = <<>>
    /\ duration = Sec
    /\ thresh = 0
    /\ ci = 0
    /\ pos = 0
    /\ elapsed = 0
    /\ seg = 0
    /\ chapters = <<>>
    /\ marks = <<>>
    /\ clips = <<>>
    /\ NoCaptions
    /\ probe = <<>>
    /\ pi = 0
    /\ vstreams \in VStreams
    /\ astreams \in AStreams
    /\ log \in Logs
    /\ gi = 0
    /\ found_v = 0
    /\ found_a = 0
    /\ targ_v = 0
    /\ targ_a = 0
    /\ curr_v = 1
    /\ curr_a = 1
    /\ _demux_v = None
    /\ _demux_a = None
    /\ on_disk = {"video", "audio"}
    /\ files = {_join} \cup Demuxed(log, on_disk)
    /\ _split = <<>>
    /\ _demuxed = <<>>

NextDemux == _find_demux_begin \/ _find_demux_for \/ _find_demux_end

SpecDemux == InitDemux /\ [][NextDemux]_vars

\* the lines of the log of one type, in order, and the n-th of a set of lines
LogOf(t) == {i \in DOMAIN log : log[i].t = t}
Ordinal(S, i) == Cardinality({j \in S : j <= i})
Nth(S, n) == CHOOSE i \in S : Ordinal(S, i) = n
\* the announcements of a kind that carry the identifier of an enabled stream
Announced(t, streams) == {i \in LogOf(t) : targets(streams, log[i].pid)}
\* the lines of a type that name a file
Named(t) == {i \in LogOf(t) : log[i].named}
DemuxDone == pc = "demux_check"

\* the claim for one kind: with k the ordinal of the announcement of the
\* enabled identifier, the resolved file is the k-th file the log names
KthNamed(ann, file, streams, demuxed) ==
    \A i \in Announced(ann, streams) :
        (Announced(ann, streams) = {i}
         /\ Ordinal(LogOf(ann), i) <= Cardinality(Named(file))) =>
            demuxed = Nth(Named(file), Ordinal(LogOf(ann), i))

\* C8: for each kind the resolved file is the k-th file the log names for
\* that kind, k being the ordinal of the announcement of the enabled
\* stream's identifier, whatever the order of the lines
C8_KthFile ==
    DemuxDone =>
        /\ KthNamed("vpid", "vfile", vstreams, _demux_v)
        /\ KthNamed("apid", "afile", astreams, _demux_a)

\* the amended claim for one kind: file lines count whether or not they
\* name a file, and the k-th must follow the announcement
KthLine(ann, file, streams, demuxed) ==
    \A i \in Announced(ann, streams) :
        Announced(ann, streams) = {i} =>
            LET k == Ordinal(LogOf(ann), i)
            IN  IF /\ k <= Cardinality(LogOf(file))
                   /\ Nth(LogOf(file), k) > i
                   /\ log[Nth(LogOf(file), k)].named
                THEN demuxed = Nth(LogOf(file), k)
                ELSE demuxed = None

\* C8 (amended): when exactly one announcement of a kind carries an enabled
\* identifier and it is the k-th of that kind, the resolved file is the one
\* the k-th file line of that kind names, if that line follows the
\* announcement and names a file; otherwise no file is resolved
C8_KthLineAfter ==
    DemuxDone =>
        /\ KthLine("vpid", "vfile", vstreams, _demux_v)
        /\ KthLine("apid", "afile", astreams, _demux_a)

\* a log whose second video announcement is the enabled one and whose second
\* video file line was resolved
C8_Witness ==
    /\ DemuxDone
    /\ \E i \in Announced("vpid", vstreams) :
         /\ Announced("vpid", vstreams) = {i}
         /\ Ordinal(LogOf("vpid"), i) = 2
         /\ Cardinality(LogOf("vfile")) >= 2
         /\ _demux_v = Nth(LogOf("vfile"), 2)

----------------------------------------------------------------------------
(* The whole run of __main__, from the construction of the source on, over *)
(* a few recordings, reports and logs.                                     *)

Kinds == {"wtv", "myth"}
MainCutlists == {<<>>, <<<<Sec, 2 * Sec>>>>}
MainProbes ==
    {<<[kind |-> "video", pid |-> 1, main |-> TRUE, tag |-> ""],
       [kind |-> "audio", pid |-> 2, main |-> FALSE, tag |-> "eng"]>>,
     <<[kind |-> "video", pid |-> 1, main |-> FALSE, tag |-> ""],
       [kind |-> "audio", pid |-> 2, main |-> FALSE, tag |-> ""]>>,
     <<[kind |-> "video", pid |-> 1, main |-> FALSE, tag |-> ""]>>}
MainLogs ==
    {<<[t |-> "vpid", pid |-> 1, named |-> FALSE],
       [t |-> "apid", pid |-> 2, named |-> FALSE],
       [t |-> "vfile", pid |-> 0, named |-> TRUE],
       [t |-> "afile", pid |-> 0, named |-> TRUE]>>,
     <<[t |-> "vpid", pid |-> 1, named |-> FALSE],
       [t |-> "vfile", pid |-> 0, named |-> TRUE]>>}

InitMain ==
    /\ pc = "source"
    /\ err = ""
    /\ procs = <<>>
    /\ kind \in Kinds
    /\ tvdb_checks \in BOOLEAN
    /\ meta_present = FALSE
    /\ language \in Languages
    /\ container \in Containers
    /\ ccextractor = FALSE
    /\ cutlist \in MainCutlists
    /\ duration = 3 * Sec
    /\ thresh = 0
    /\ ci = 0
    /\ pos = 0
    /\ elapsed = 0
    /\ seg = 0
    /\ chapters = <<>>
    /\ marks = <<>>
    /\ clips = <<>>
    /\ NoCaptions
    /\ probe \in MainProbes
    /\ pi = 0
    /\ vstreams = <<>>
    /\ astreams = <<>>
    /\ log \in MainLogs
    /\ gi = 0
    /\ found_v = 0
    /\ found_a = 0
    /\ targ_v = 0
    /\ targ_a = 0
    /\ curr_v = 1
    /\ curr_a = 1
    /\ _demux_v = None
    /\ _demux_a = None
    /\ on_disk \in SUBSET {"video", "audio"}
    /\ NoFiles

NextMain ==
    \/ main_source
    \/ main_copy
    \/ main_transcoder
    \/ split_for
    \/ split_end
    \/ join
    \/ adjust_begin
    \/ adjust_for
    \/ adjust_end
    \/ demux_begin
    \/ _find_streams_begin
    \/ _find_streams_for
    \/ _find_streams_end
    \/ _find_demux_begin
    \/ _find_demux_for
    \/ _find_demux_end
    \/ demux_end
    \/ encode_audio
    \/ encode_video
    \/ remux
    \/ main_clean
    \/ Source_clean_tmp

SpecMain == InitMain /\ [][NextMain]_vars

\* C10: with a language that the lookup table does not have, the run ends in
\* a configuration error (it never completes, and an error it ends with is
\* the ValueError of the lookup) and no external process is ever started
C10_UnknownLanguageFirst ==
    language \notin DOMAIN languages =>
        /\ procs = <<>>
        /\ pc # "done"
        /\ (pc = "error" => err = "ValueError")

----------------------------------------------------------------------------
(* Properties of the whole run *)

\* C11: when there is no caption file (captions disabled, or ccextractor
\* wrote none) and at least one segment was extracted, the call of
\* subtitles.adjust() in join returns without error and demux is next
C11_NoCaptionsNoError ==
    [][ (pc = "adjust" /\ ~srt_exists /\ Len(clips) >= 1)
        => (pc' = "demux" /\ err' = "") ]_vars

\* the return code of a _cmd call is neither 0 nor the one its caller expects
Unexpected(p) ==
    /\ p.ret # None
    /\ p.ret # 0
    /\ p.ret # (IF p.tool = "ccextractor" THEN 232 ELSE 0)

\* C12: once a tool has returned an unexpected code, the run has ended with
\* an error and no other process was started after it (no later stage, no
\* later invocation, no second attempt)
C12_FailFast ==
    \A i \in DOMAIN procs :
        Unexpected(procs[i]) => (i = Len(procs) /\ pc = "error")

\* C12 amended: the same for every tool but the MP4Box call that embeds the
\* chapters and the AtomicParsley call that embeds the artwork, whose
\* failures are logged and after which remux goes on
C12_FailFastButLogged ==
    \A i \in DOMAIN procs :
        (Unexpected(procs[i])
         /\ procs[i].tool \notin {"MP4Box chap", "AtomicParsley artwork"})
            => (i = Len(procs) /\ pc = "error")

\* mkvmerge, the last command of a Matroska run, has failed
C12_Witness ==
    /\ pc = "error"
    /\ err = "RuntimeError"
    /\ procs # <<>>
    /\ procs[Len(procs)].tool = "mkvmerge"
    /\ Unexpected(procs[Len(procs)])

----------------------------------------------------------------------------
(* Properties of a second call of adjust *)

\* C13: adjust called with an empty marker list returns at once and leaves
\* the caption file as it is, whatever the file holds, also when the file
\* is the output of an earlier pass that had markers
C13_EmptyMarksNoChange ==
    [][ (pc = "adjust" /\ marks = <<>>)
        => (/\ srt' = srt
            /\ srt_exists' = srt_exists
            /\ pc' = "demux"
            /\ err' = err) ]_vars

\* the second call has returned, on a file in which the first pass had
\* clipped a caption at a marker
C13_Witness ==
    /\ pc = "demux"
    /\ marks = <<>>
    /\ err = ""
    /\ li = Len(srt)
    /\ li > 0
    /\ delay < 0
    /\ srt = newsubs

----------------------------------------------------------------------------
(* The planner on the recording of 100 seconds *)

\* C14: with duration 100, thresh 5 and the cuts (20,30) and (60,65), split
\* has extracted the segments (0,20), (30,60), (65,100), in that order
C14_ThreeSegments ==
    (/\ SplitDone
     /\ duration = 100 * Sec
     /\ thresh = 5
     /\ cutlist = << <<20 * Sec, 30 * Sec>>, <<60 * Sec, 65 * Sec>> >>)
    => clips = << <<0, 20 * Sec>>, <<30 * Sec, 60 * Sec>>, <<65 * Sec, 100 * Sec>> >>

C14_Witness ==
    /\ SplitDone
    /\ duration = 100 * Sec
    /\ thresh = 5
    /\ cutlist = << <<20 * Sec, 30 * Sec>>, <<60 * Sec, 65 * Sec>> >>
    /\ Len(clips) = 3
    /\ seg = 3

\* C15: when the first cut starts at 0, the pass over that cut extracts
\* nothing, runs nothing and records nothing, and no segment ends at 0; with
\* duration 100, thresh 5 and the single cut (0,10) the segments are (10,100)
C15_NoLeadingSegment ==
    /\ (cutlist # <<>> /\ cutlist[1][1] = 0)
       => /\ \A i \in DOMAIN clips : clips[i][2] > 0
          /\ (pc = "split" /\ ci = 1)
             => (clips = <<>> /\ procs = <<>> /\ chapters = <<>> /\ marks = <<>>)
    /\ (/\ SplitDone
        /\ duration = 100 * Sec
        /\ thresh = 5
        /\ cutlist = << <<0, 10 * Sec>> >>)
       => clips = << <<10 * Sec, 100 * Sec>> >>

C15_Witness ==
    /\ SplitDone
    /\ duration = 100 * Sec
    /\ thresh = 5
    /\ cutlist = << <<0, 10 * Sec>> >>
    /\ clips = << <<10 * Sec, 100 * Sec>> >>
    /\ seg = 1

----------------------------------------------------------------------------
(* The planner without cuts *)

\* the markers of the chapter file as (position, printed time, labelled)
Markers == [i \in DOMAIN chapters |->
              <<chapters[i].pos, chapters[i].time, chapters[i].seg # None>>]

----------------------------------------------------------------------------
(* Properties of the end of demux *)

\* the commands of encode_audio and encode_video
EncodeTools == {"ffmpeg wav", "neroAacEnc", "ffmpeg audio",
                "ffmpeg pass 1", "ffmpeg pass 2", "ffmpeg video"}

\* for one of the two kinds no file was resolved, or the resolved file is
\* not on disk
Unresolved ==
    \/ _demux_v = None \/ "video" \notin on_disk
    \/ _demux_a = None \/ "audio" \notin on_disk

\* C17: while a kind has no resolved file that exists, the run is never in
\* a stage after demux and no encoding command has been started; the run
\* that has scanned the whole log with such a kind ends in a RuntimeError
C17_NoGuessedFile ==
    Unresolved
    => /\ pc \notin {"encode_audio", "encode_video", "remux", "clean", "clean_source",
                   "done"}
       /\ \A i \in DOMAIN procs : procs[i].tool \notin EncodeTools
       /\ (pc = "error" /\ gi > 0 /\ gi = Len(log)) => err = "RuntimeError"

\* the log announced and named the video stream only: demux has failed
\* after the scan although the video file is there
C17_Witness ==
    /\ pc = "error"
    /\ err = "RuntimeError"
    /\ gi > 0
    /\ gi = Len(log)
    /\ _demux_v # None
    /\ "video" \in on_disk
    /\ _demux_a = None
    /\ procs[Len(procs)].tool = "ffmpeg probe"

----------------------------------------------------------------------------
(* Properties of one pass of the loop of split *)

\* a pass of the loop over the cut (start, end) calls _extract for the clip
\* (pos, start) exactly when keep holds; the pass that returns leaves pos at
\* end, with the clip appended if it was kept and no clip otherwise
PassOfLoop(keep(_, _)) ==
    (pc = "split" /\ ci < Len(cutlist))
    => LET start == cutlist[ci + 1][1]
           end == cutlist[ci + 1][2]
       IN  /\ (Len(procs') = Len(procs) + 1) <=> keep(start, pos)
           /\ keep(start, pos) \/ (procs' = procs /\ clips' = clips /\ pc' = "split")
           /\ pc' = "split"
              => /\ ci' = ci + 1
                 /\ pos' = end
                 /\ keep(start, pos) => clips' = Append(clips, <<pos, start>>)

GapOverThresh(start, p) == start - p > thresh * Sec /\ start > p
StartOverThresh(start, p) == start > thresh * Sec /\ start > p

\* C18 as stated: for each cut (start, end), split extracts (pos, start) if
\* and only if start - pos > thresh and start > pos; pos becomes end
C18_GapTest == [][PassOfLoop(GapOverThresh)]_vars

\* C18 amended: split extracts (pos, start) if and only if start > thresh
\* and start > pos; pos becomes end in both cases
C18_StartTest == [][PassOfLoop(StartOverThresh)]_vars

\* a segment between two cuts that is no longer than thresh was extracted
C18_Witness ==
    /\ Len(cutlist) >= 2
    /\ ci >= 2
    /\ thresh > 0
    /\ cutlist[2][1] > cutlist[1][2]
    /\ cutlist[2][1] - cutlist[1][2] <= thresh * Sec
    /\ \E i \in DOMAIN clips : clips[i] = <<cutlist[1][2], cutlist[2][1]>>

----------------------------------------------------------------------------
(* Properties of the first and the last candidate *)

\* C19: _extract is called for the candidate from 0 to the first cut only
\* if the candidate is longer than thresh, and for the candidate from the
\* last cut's end (0 without cuts) to duration only if that one is longer
\* than thresh
C19_EdgesOverThresh ==
    [][ /\ (pc = "split" /\ ci = 0 /\ ci < Len(cutlist) /\ procs' # procs)
           => cutlist[1][1] - 0 > thresh * Sec
        /\ (pc = "split" /\ ci = Len(cutlist) /\ procs' # procs)
           => duration - pos > thresh * Sec ]_vars

\* split has returned without extracting anything: the candidate before the
\* first cut and the one after the last cut both exist and are no longer
\* than thresh
C19_Witness ==
    /\ SplitDone
    /\ thresh > 0
    /\ Len(cutlist) = 1
    /\ 0 < cutlist[1][1]
    /\ cutlist[1][1] <= thresh * Sec
    /\ pos = cutlist[1][2]
    /\ pos < duration
    /\ duration - pos <= thresh * Sec
    /\ clips = <<>>
    /\ procs = <<>>

----------------------------------------------------------------------------
(* Properties of the chapter markers *)

\* C20: for a cutlist that is ascending and does not overlap, the markers
\* are in order at every moment of split, the closing one included: no
\* position handed to chapters.add is before an earlier one
C20_MarkersIncrease ==
    \A i, j \in DOMAIN chapters : i < j => chapters[i].pos <= chapters[j].pos

----------------------------------------------------------------------------
(* Properties of one pass of the loop of adjust *)

\* the pass of the loop that is about to run reads a timestamp line
CaptionNext == pc = "adjust_for" /\ li < Len(srt) /\ srt[li + 1].ts
\* the delayed start and end of that caption, and the next unconsumed marker
NextStart == _convert_timestamp(srt[li + 1].start) + delay
NextEnd == _convert_timestamp(srt[li + 1].end) + delay
NextMark == marks[curr + 1]

\* C21: whenever the next unconsumed marker is before the caption's delayed
\* end, curr advances by one; when that marker is not after the delayed
\* start, the caption is written with its delayed start and end, delay
\* stays as it is and the marker is consumed all the same
C21_MarkerConsumed ==
    [][ (CaptionNext /\ li' = li + 1 /\ curr < Len(marks) /\ NextMark < NextEnd)
        => /\ curr' = curr + 1
           /\ NextMark <= NextStart
              => /\ delay' = delay
                 /\ newsubs'[li + 1].start = _seconds_to_time_frac(NextStart, TRUE)
                 /\ newsubs'[li + 1].end = _seconds_to_time_frac(NextEnd, TRUE) ]_vars

\* the first caption starts at or after the first marker and ends after it:
\* the marker is consumed and nothing was clipped
C21_Witness ==
    /\ pc = "adjust_for"
    /\ li = 1
    /\ srt[1].ts
    /\ marks # <<>>
    /\ marks[1] <= _convert_timestamp(srt[1].start)
    /\ marks[1] < _convert_timestamp(srt[1].end)
    /\ curr = 1
    /\ delay = 0
    /\ newsubs[1].end = _seconds_to_time_frac(_convert_timestamp(srt[1].end), TRUE)


\* C22: one caption advances curr by at most one and changes delay at most
\* once, by the distance from the next marker to its end; when two
\* unconsumed markers lie inside the caption's span the caption is clipped
\* at the first and the second is still unconsumed after the pass
C22_OneClipPerCaption ==
    [][ (CaptionNext /\ li' = li + 1)
        => /\ curr' \in {curr, curr + 1}
           /\ delay' = delay \/ (curr < Len(marks) /\ delay' = delay + (NextMark - NextEnd))
           /\ (/\ curr + 1 < Len(marks)
               /\ NextStart < NextMark
               /\ marks[curr + 2] < NextEnd)
              => /\ curr' = curr + 1
                 /\ delay' = delay + (NextMark - NextEnd)
                 /\ newsubs'[li + 1].end = _seconds_to_time_frac(NextMark, TRUE) ]_vars

\* the first caption held two markers: it was clipped at the first, and
\* the second is the next unconsumed one
C22_Witness ==
    /\ pc = "adjust_for"
    /\ li = 1
    /\ srt[1].ts
    /\ Len(marks) = 2
    /\ _convert_timestamp(srt[1].start) < marks[1]
    /\ marks[2] < _convert_timestamp(srt[1].end)
    /\ curr = 1
    /\ delay = marks[1] - _convert_timestamp(srt[1].end)


\* C23: a caption whose delayed end is not after the next unconsumed marker
\* changes neither delay nor curr and is written at its delayed start and
\* end, to the millisecond; with no delay so far it is written as it was read
C23_BeforeMarkersUnaffected ==
    [][ (CaptionNext /\ li' = li + 1 /\ curr < Len(marks) /\ NextEnd <= NextMark)
        => /\ delay' = delay
           /\ curr' = curr
           /\ _convert_timestamp(newsubs'[li + 1].start) = RoundMs(NextStart)
           /\ _convert_timestamp(newsubs'[li + 1].end) = RoundMs(NextEnd)
           /\ delay = 0 => (/\ newsubs'[li + 1].start = srt[li + 1].start
                            /\ newsubs'[li + 1].end = srt[li + 1].end) ]_vars


----------------------------------------------------------------------------
(* Properties of the track adjust writes *)

\* the length of a caption as its timestamp line says it
Length(line) == _convert_timestamp(line.end) - _convert_timestamp(line.start)

\* each caption of t ends no earlier than it starts
Ordered(t) ==
    \A i \in DOMAIN t :
        t[i].ts => _convert_timestamp(t[i].start) <= _convert_timestamp(t[i].end)

\* C24: for an ordered and well formed track and ascending markers, the
\* captions written so far are ordered and well formed (each start <= end,
\* each start >= the end of the caption before) and none is longer than it
\* was in the input
C24_OutputWellFormed ==
    (pc = "adjust_for" /\ Ordered(srt) /\ WellFormed(srt) /\ Ascending(marks))
    => /\ Ordered(newsubs)
       /\ WellFormed(newsubs)
       /\ \A i \in DOMAIN newsubs : newsubs[i].ts => Length(newsubs[i]) <= Length(srt[i])


\* C25: the lines written so far are as many as the lines read, a timestamp
\* line for a timestamp line and every other line as it was read; the file
\* adjust leaves holds these lines and no other
C25_OnlyTimestampsChange ==
    /\ pc = "adjust_for"
       => /\ Len(newsubs) = li
          /\ \A i \in DOMAIN newsubs :
                /\ newsubs[i].ts = srt[i].ts
                /\ ~srt[i].ts => newsubs[i] = srt[i]
    /\ (pc = "demux" /\ marks # <<>>)
       => /\ srt = newsubs
          /\ Len(srt) = li

\* a pass has rewritten a file that holds a caption it clipped and a line
\* that is no timestamp
C25_Witness ==
    /\ pc = "demux"
    /\ marks # <<>>
    /\ err = ""
    /\ delay < 0
    /\ Len(srt) = MaxLines
    /\ \E i \in DOMAIN srt : ~srt[i].ts
    /\ \E i \in DOMAIN srt : srt[i].ts


\* C29: in every pass of the loop delay does not grow and is not positive
\* afterwards, and curr does not shrink and is at most the number of markers
\* afterwards, so that marks[curr] is read only where there is a marker
C29_DelayAndCurrBounded ==
    [][ pc = "adjust_for"
        => /\ delay' <= delay
           /\ delay' <= 0
           /\ curr' >= curr
           /\ curr' <= Len(marks) ]_vars

\* a pass over a whole file has consumed every marker and clipped a caption
C29_Witness ==
    /\ pc = "adjust_for"
    /\ li = Len(srt)
    /\ Len(marks) = MaxMarks
    /\ curr = Len(marks)
    /\ delay < 0


----------------------------------------------------------------------------
(* _cmd on its own: up to MaxCalls commands in a row, each with every       *)
(* return code a process can end with, called the way Subtitles.extract    *)
(* (expected = 232) and every other caller (expected = 0) call it.         *)

\* what proc.wait() returns: an exit status, or minus the number of a signal
ExitCodes == (-15)..255

\* the expected code the callers of _cmd pass
Expected(tool) == IF tool = "ccextractor" THEN 232 ELSE 0

InitCmd ==
    /\ pc = "cmd"
    /\ err = ""
    /\ procs = <<>>
    /\ kind = "wtv"
    /\ language = "en"
    /\ container = "mp4"
    /\ ccextractor = TRUE
    /\ tvdb_checks = TRUE
    /\ meta_present = TRUE
    /\ cutlist = <<>>
    /\ duration = Sec
    /\ thresh = 0
    /\ ci = 0
    /\ pos = 0
    /\ elapsed = 0
    /\ seg = 0
    /\ chapters = <<>>
    /\ marks = <<>>
    /\ clips = <<>>
    /\ NoCaptions
    /\ NoStreams
    /\ NoDemux
    /\ NoFiles

\* one call of _cmd: the process runs and ends with ret; RuntimeError or the
\* return to the caller, which goes on to its next command
cmd_call ==
    /\ pc = "cmd"
    /\ Len(procs) < MaxCalls
    /\ \E tool \in {"ffmpeg join", "ccextractor"}, ret \in ExitCodes :
         LET r == _cmd(ret, Expected(tool))
         IN  /\ procs' = Append(procs, Proc(tool, r.ret))
             /\ pc' = IF r.raised THEN "error" ELSE "cmd"
             /\ err' = IF r.raised THEN "RuntimeError" ELSE err
    /\ UNCHANGED <<optVars, splitVars, adjVars, selVars, fileVars>>

SpecCmd == InitCmd /\ [][cmd_call]_vars

\* the i-th call ended the run with a RuntimeError
Raised(i) == i = Len(procs) /\ pc = "error" /\ err = "RuntimeError"

----------------------------------------------------------------------------
(* Properties of the order of the stages and of the temporary files *)

\* the stage of __main__ a command belongs to, 0 for the probes (version
\* checks, ffmpeg -i) that several stages run
StageOf(tool) ==
    CASE tool = "java WtvToMpeg" -> 1
      [] tool = "ffmpeg extract" -> 2
      [] tool \in {"ffmpeg join", "ccextractor"} -> 3
      [] tool = "java ProjectX" -> 4
      [] tool \in {"ffmpeg wav", "neroAacEnc", "ffmpeg audio"} -> 5
      [] tool \in {"ffmpeg pass 1", "ffmpeg pass 2", "ffmpeg video"} -> 6
      [] tool \in {"MP4Box new", "MP4Box hint", "MP4Box srt", "MP4Box chap", "MP4Box lang",
                   "AtomicParsley tags", "AtomicParsley description",
                   "AtomicParsley artwork", "AtomicParsley credits", "mkvmerge"} -> 7
      [] OTHER -> 0

\* the stage the run is in: copy 1, split 2, join 3, demux 4, encode audio 5,
\* encode video 6, remux 7, cleanup 8
StageAt ==
    CASE pc \in {"source", "copy"} -> 1
      [] pc \in {"transcoder", "split"} -> 2
      [] pc \in {"join", "adjust", "adjust_for"} -> 3
      [] pc \in {"demux", "find_streams", "find_streams_for", "find_demux",
                 "find_demux_for", "demux_check"} -> 4
      [] pc = "encode_audio" -> 5
      [] pc = "encode_video" -> 6
      [] pc = "remux" -> 7
      [] OTHER -> 8

\* the commands of the stages that were started, in order
Staged == SelectSeq(procs, LAMBDA p : StageOf(p.tool) > 0)

\* the command returned what _cmd lets pass
Passed(p) == p.ret = 0 \/ (p.tool = "ccextractor" /\ p.ret = 232)

\* C26: the commands of the stages run in the order copy, split, join,
\* demux, encode audio, encode video, remux; a command of a later stage is
\* started only after every command of the earlier stages has returned
\* successfully and, while the run has not failed, each of the stages join
\* to remux that lies before the current one has run its command; the copy
\* is there while split has yet to read it, the demuxed audio while the
\* audio encoding has yet to run and the demuxed video until the video
\* encoding has run
C26_StagesInOrder ==
    /\ LET st == Staged
           n == Len(st)
           stage == [i \in 1..n |-> StageOf(st[i].tool)]
           at == StageAt
       IN  /\ \A i \in 1..(n - 1) :
                /\ stage[i] <= stage[i + 1]
                /\ stage[i] < stage[n] => Passed(st[i])
           /\ \A i \in 1..n : pc # "error" => stage[i] <= at
           /\ \A k \in 3..7 :
                (pc # "error" /\ k < at)
                => \E i \in 1..n : stage[i] = k /\ Passed(st[i])
    /\ pc \in {"transcoder", "split"} => orig \in files
    /\ pc = "encode_audio" => DemuxName(_demux_a) \in files
    /\ pc \in {"encode_audio", "encode_video"} => DemuxName(_demux_v) \in files

\* the audio has been encoded, the video is about to be: the copy and the
\* demuxed audio are gone, the demuxed video is there
C26_Witness ==
    /\ pc = "encode_video"
    /\ orig \notin files
    /\ DemuxName(_demux_a) \notin files
    /\ DemuxName(_demux_v) \in files
    /\ \E i \in DOMAIN procs : procs[i].tool = "ffmpeg extract"


\* C27: once Transcoder.clean_tmp has run, no segment that _extract wrote
\* and no file that the Project-X log names is left
C27_TemporariesRemoved ==
    pc = "clean_source" => files \cap (Segments(seg) \cup Demuxed(log, on_disk)) = {}


\* the extractions that succeeded, as positions in procs
Extracted == {i \in DOMAIN procs : procs[i].tool = "ffmpeg extract" /\ procs[i].ret = 0}

\* the names a segment can have
SegNames == {SegName(k) : k \in 0..9}

\* C30: seg counts the extractions that succeeded, and so does the list of
\* caption marks; until join has looked for them the segment files are
\* those numbered 0 to seg - 1; the ffmpeg command of join is given the
\* segments 0 to seg - 1 in that order; and a run in which one of them is
\* missing has ended in a RuntimeError without that command
C30_SegmentsNumbered ==
    /\ seg = Cardinality(Extracted)
    /\ Len(marks) = seg
    /\ pc \in {"split", "join"} => files \cap SegNames = {SegName(k) : k \in 0..(seg - 1)}
    /\ \A i \in DOMAIN procs :
         procs[i].tool = "ffmpeg join"
         => /\ Len(procs[i].concat) = seg
            /\ \A k \in 1..seg : procs[i].concat[k] = SegName(k - 1)
    /\ (pc # "done" /\ \E k \in 0..(seg - 1) : SegName(k) \notin files)
       => /\ pc = "error"
          /\ err = "RuntimeError"
          /\ \A i \in DOMAIN procs : procs[i].tool # "ffmpeg join"

\* two segments were extracted and joined
C30_Witness ==
    /\ pc = "demux"
    /\ seg = 2
    /\ \E i \in DOMAIN procs : procs[i].tool = "ffmpeg join" /\ Len(procs[i].concat) = 2

====
